---- MODULE Spec2Model ----
(***************************************************************************)
(* A model of the mstk helper library (src/mstk/docxtk.py, pptxtk.py).     *)
(*                                                                         *)
(* The library is a set of functions, so each function is an action that   *)
(* is applied to inputs drawn from bounded sets.  The arithmetic is the    *)
(* arithmetic Python performs: a float is an IEEE-754 double (53-bit       *)
(* significand, round-to-nearest, ties-to-even), an int is unbounded.      *)
(* Natural numbers wider than TLC's integers are kept as little-endian     *)
(* sequences of limbs.                                                     *)
(***************************************************************************)
EXTENDS Integers, Sequences, FiniteSets, TLC

----------------------------------------------------------------------------
(* Unbounded naturals: <<>> is 0, the last limb of a number is not 0.      *)

LimbBits == 14
Radix == 2^LimbBits

Max(a, b) == IF a >= b THEN a ELSE b
Min(a, b) == IF a <= b THEN a ELSE b

RECURSIVE BNorm(_)
BNorm(s) == IF s # <<>> /\ s[Len(s)] = 0 THEN BNorm(SubSeq(s, 1, Len(s) - 1)) ELSE s

RECURSIVE BFromInt(_)
BFromInt(n) == IF n = 0 THEN <<>> ELSE <<n % Radix>> \o BFromInt(n \div Radix)

BLimb(a, i) == IF i <= Len(a) THEN a[i] ELSE 0

RECURSIVE BAddFrom(_, _, _, _)
BAddFrom(a, b, i, c) ==
    IF i > Len(a) /\ i > Len(b)
    THEN IF c = 0 THEN <<>> ELSE <<c>>
    ELSE LET t == BLimb(a, i) + BLimb(b, i) + c
         IN  <<t % Radix>> \o BAddFrom(a, b, i + 1, t \div Radix)

BAdd(a, b) == BAddFrom(a, b, 1, 0)

RECURSIVE BSubFrom(_, _, _, _)
BSubFrom(a, b, i, c) ==
    IF i > Len(a)
    THEN <<>>
    ELSE LET t == BLimb(a, i) - BLimb(b, i) - c
         IN  <<t % Radix>> \o BSubFrom(a, b, i + 1, IF t < 0 THEN 1 ELSE 0)

\* a - b, for a >= b
BSub(a, b) == BNorm(BSubFrom(a, b, 1, 0))

RECURSIVE BMulSmallFrom(_, _, _, _)
BMulSmallFrom(a, k, i, c) ==
    IF i > Len(a)
    THEN IF c = 0 THEN <<>> ELSE <<c>>
    ELSE LET t == a[i] * k + c
         IN  <<t % Radix>> \o BMulSmallFrom(a, k, i + 1, t \div Radix)

\* a * k, for 0 <= k <= Radix
BMulSmall(a, k) == IF k = 0 THEN <<>> ELSE BMulSmallFrom(a, k, 1, 0)

BShlLimbs(a, j) == IF a = <<>> THEN <<>> ELSE [i \in 1..j |-> 0] \o a

RECURSIVE BMulFrom(_, _, _)
BMulFrom(a, b, j) ==
    IF j > Len(b)
    THEN <<>>
    ELSE BAdd(BShlLimbs(BMulSmall(a, b[j]), j - 1), BMulFrom(a, b, j + 1))

BMul(a, b) == BMulFrom(a, b, 1)

\* quotient and remainder of a by d, for 0 < d <= Radix
RECURSIVE BDivRem(_, _)
BDivRem(a, d) ==
    IF a = <<>>
    THEN [q |-> <<>>, r |-> 0]
    ELSE LET hi == BDivRem(Tail(a), d)
             t  == hi.r * Radix + Head(a)
         IN  [q |-> BNorm(<<t \div d>> \o hi.q), r |-> t % d]

BShl(a, k) == BShlLimbs(BMulSmall(a, 2^(k % LimbBits)), k \div LimbBits)

BShr(a, k) ==
    IF k \div LimbBits >= Len(a)
    THEN <<>>
    ELSE BDivRem(SubSeq(a, (k \div LimbBits) + 1, Len(a)), 2^(k % LimbBits)).q

RECURSIVE SmallBitLen(_)
SmallBitLen(n) == IF n = 0 THEN 0 ELSE 1 + SmallBitLen(n \div 2)

BitLen(a) == IF a = <<>> THEN 0 ELSE LimbBits * (Len(a) - 1) + SmallBitLen(a[Len(a)])

BOdd(a) == a # <<>> /\ a[1] % 2 = 1

RECURSIVE BCmpFrom(_, _, _)
BCmpFrom(a, b, i) ==
    IF i = 0 THEN 0
    ELSE IF a[i] < b[i] THEN -1
    ELSE IF a[i] > b[i] THEN 1
    ELSE BCmpFrom(a, b, i - 1)

\* -1, 0 or 1 as a < b, a = b or a > b
BCmp(a, b) ==
    IF Len(a) < Len(b) THEN -1
    ELSE IF Len(a) > Len(b) THEN 1
    ELSE BCmpFrom(a, b, Len(a))

RECURSIVE BPow10(_)
BPow10(n) == IF n = 0 THEN <<1>> ELSE BMulSmall(BPow10(n - 1), 10)

\* floor(a / 10^n)
RECURSIVE BDivPow10(_, _)
BDivPow10(a, n) == IF n = 0 THEN a ELSE BDivPow10(BDivRem(a, 10).q, n - 1)

\* a / d rounded to the nearest integer, ties to the even one (d > 0)
RoundHalfEven(q, r2cmp) ==
    IF r2cmp > 0 \/ (r2cmp = 0 /\ BOdd(q)) THEN BAdd(q, <<1>>) ELSE q

\* a / d rounded, for the quotient q = floor(a / d)
BRoundQuotient(a, d, q) == RoundHalfEven(q, BCmp(BShl(BSub(a, BMul(q, d)), 1), d))

\* a / (2^s * 10^n) rounded to the nearest integer, ties to even
BDivRound(a, s, n) == BRoundQuotient(a, BShl(BPow10(n), s), BDivPow10(BShr(a, s), n))

----------------------------------------------------------------------------
(* IEEE-754 doubles, finite and non-negative: the value is m * 2^e, with   *)
(* m = 0 and e = 0, or m of exactly Mantissa bits.  Python's float and     *)
(* numpy's float64.                                                        *)

Mantissa == 53

FZero == [m |-> <<>>, e |-> 0]

\* a significand q of Mantissa bits, or of one more after rounding up
FNormal(q, e) ==
    IF BitLen(q) > Mantissa THEN [m |-> BShr(q, 1), e |-> e + 1] ELSE [m |-> q, e |-> e]

\* n is cut by sh bits; q2 holds the bits kept and the first bit cut
FRoundCut(n, e, sh, q2, q) ==
    FNormal(IF BOdd(q2) /\ (BShl(q2, sh - 1) # n \/ BOdd(q)) THEN BAdd(q, <<1>>) ELSE q,
            e + sh)

FRoundShift(n, e, sh, q2) == FRoundCut(n, e, sh, q2, BShr(q2, 1))

FRoundLen(n, e, len) ==
    IF len <= Mantissa
    THEN [m |-> BShl(n, Mantissa - len), e |-> e - (Mantissa - len)]
    ELSE FRoundShift(n, e, len - Mantissa, BShr(n, len - Mantissa - 1))

\* the double nearest to n * 2^e (round-to-nearest, ties-to-even)
FRound(n, e) == IF n = <<>> THEN FZero ELSE FRoundLen(n, e, BitLen(n))

\* n * 2^e with the exponent lowered to lo
Aligned(n, e, lo) == BShl(n, e - lo)

\* the exact sum, as a natural n and an exponent e (n * 2^e)
ExactAddAt(x, y, lo) == [n |-> BAdd(Aligned(x.n, x.e, lo), Aligned(y.n, y.e, lo)), e |-> lo]

ExactAdd(x, y) == ExactAddAt(x, y, Min(x.e, y.e))

Exact(x) == [n |-> x.m, e |-> x.e]

FRoundExact(s) == FRound(s.n, s.e)

FAdd(x, y) == FRoundExact(ExactAdd(Exact(x), Exact(y)))

FMul(x, y) == FRound(BMul(x.m, y.m), x.e + y.e)

FSubAt(x, y, lo) == FRound(BSub(Aligned(x.m, x.e, lo), Aligned(y.m, y.e, lo)), lo)

\* x - y, for x >= y
FSub(x, y) == FSubAt(x, y, Min(x.e, y.e))

FCmpAt(x, y, lo) == BCmp(Aligned(x.m, x.e, lo), Aligned(y.m, y.e, lo))

\* -1, 0, 1 as x < y, x = y, x > y
FCmp(x, y) == FCmpAt(x, y, Min(x.e, y.e))

\* the double a Python int converts to
FFromInt(k) == FRound(BFromInt(k), 0)

GuardBits == 70

\* the double nearest to a / b, for naturals a and 0 < b <= Radix: what
\* Python reads a decimal literal such as 0.1 (1/10) as
FFromQuotient(d) ==
    FRound(BAdd(BShl(d.q, 1), IF d.r = 0 THEN <<>> ELSE <<1>>), -(GuardBits + 1))

FFromRatio(a, b) == FFromQuotient(BDivRem(BShl(a, GuardBits), b))

----------------------------------------------------------------------------
(* State: one call of one library function.  args holds the arguments of   *)
(* the call, fn the function called, ret what the call returned or raised, *)
(* and prs, doc and slide the presentation, the word document and the      *)
(* slide that the call works on (each the sequence of what it holds).      *)

VARIABLES pc, fn, args, ret, prs, doc, slide

vars == <<pc, fn, args, ret, prs, doc, slide>>

\* Optional[...] arguments
None == [none |-> TRUE]
Some(v) == [none |-> FALSE, v |-> v]

Raise(exc) == [raised |-> exc]

\* the sequences over S of length 0..n
SeqsUpTo(S, n) == UNION {[1..k -> S] : k \in 0..n}

----------------------------------------------------------------------------
(* pptxtk.py: layout constants (centimetres)                               *)

\* a decimal literal a/b of the source, as the double Python reads it as
Dec(a, b) == FFromRatio(BFromInt(a), b)

SLIDE_WIDTH == FFromInt(26)
SLIDE_HEIGHT == FFromInt(15)
TOP == Dec(16, 10)
LEFT == Dec(1, 10)
HEIGHT == FSub(SLIDE_HEIGHT, TOP)
WIDTH == FSub(SLIDE_WIDTH, FMul(FFromInt(2), LEFT))

HEADLINE_HEIGHT == Dec(1, 10)
HEADLINE_TOP == Dec(12, 10)
HEADLINE_LEFT == FFromInt(0)

LOGO_HEIGHT == FFromInt(1)
LOGO_TOP == Dec(1, 10)
LOGO_LEFT == FSub(SLIDE_WIDTH, Dec(11, 10))

TITLE_HEIGHT == FFromInt(1)
TITLE_WIDTH == FSub(SLIDE_WIDTH, FFromInt(2))
TITLE_TOP == Dec(1, 10)
TITLE_LEFT == Dec(3, 10)

GREEN_MAIN == <<112, 182, 88>>
BLACK == <<0, 0, 0>>

----------------------------------------------------------------------------
(* pptxtk.py: proportional splitting                                       *)

FOne == FFromInt(1)

\* Python's sum(): 0 + p[1] + p[2] + ..., added left to right in doubles
RECURSIVE SumFrom(_, _, _)
SumFrom(p, i, acc) == IF i > Len(p) THEN acc ELSE SumFrom(p, i + 1, FAdd(acc, p[i]))

FSum(p) == SumFrom(p, 1, FZero)

\* numpy.cumsum: c[1] = p[1], c[i] = c[i-1] + p[i]
RECURSIVE CumSum(_)
CumSum(p) ==
    IF Len(p) <= 1 THEN p
    ELSE LET c == CumSum(SubSeq(p, 1, Len(p) - 1))
         IN  Append(c, FAdd(c[Len(c)], p[Len(p)]))

\* the check as `if sum(proportions) > 1:` would make it
SumAboveOne(p) == FCmp(FSum(p), FOne) > 0

\* if sum(proportions) != 1:
SumIsNotOne(p) == FSum(p) # FOne

\* starts = [start] + list(((proportions_cum * length) + start)[:-1])
\* lengths = proportions * length
SubDims(start, length, proportions, cum) ==
    [raised  |-> "none",
     starts  |-> <<start>> \o [i \in 1..(Len(proportions) - 1) |->
                                 FAdd(FMul(cum[i], length), start)],
     lengths |-> [i \in 1..Len(proportions) |-> FMul(proportions[i], length)]]

make_sub_dims(start, length, proportions) ==
    IF SumIsNotOne(proportions)
    THEN Raise("ValueError")
    ELSE SubDims(start, length, proportions, CumSum(proportions))

DimKeys(n) == {"left", "width", "top", "height"} \X (0..(n - 1))

\* dims[f'left{i}'] = lefts[i], ... for i in range(ncols)
ColDims(sub, ncols, top, height) ==
    IF sub.raised # "none" THEN sub
    ELSE [raised |-> "none",
          dims   |-> [k \in DimKeys(ncols) |->
                        CASE k[1] = "left"   -> sub.starts[k[2] + 1]
                          [] k[1] = "width"  -> sub.lengths[k[2] + 1]
                          [] k[1] = "top"    -> top
                          [] k[1] = "height" -> height]]

make_col_dims(left, width, proportions, top, height) ==
    ColDims(make_sub_dims(left, width, proportions), Len(proportions), top, height)

RowDims(sub, nrows, left, width) ==
    IF sub.raised # "none" THEN sub
    ELSE [raised |-> "none",
          dims   |-> [k \in DimKeys(nrows) |->
                        CASE k[1] = "left"   -> left
                          [] k[1] = "width"  -> width
                          [] k[1] = "top"    -> sub.starts[k[2] + 1]
                          [] k[1] = "height" -> sub.lengths[k[2] + 1]]]

make_row_dims(top, height, proportions, left, width) ==
    RowDims(make_sub_dims(top, height, proportions), Len(proportions), left, width)

----------------------------------------------------------------------------
(* pptxtk.py: slides.  A slide is the sequence of its shapes.              *)

\* python-pptx lengths: the objects Cm(x) and Pt(x)
Cm(x) == [unit |-> "cm", v |-> x]
Pt(x) == [unit |-> "pt", v |-> x]

\* Cm(v) if v else None
CmOrNone(v) == IF v = None \/ v = FZero THEN None ELSE Cm(v)

get_cm(left, top, width, height) ==
    [left |-> Cm(left), top |-> Cm(top), width |-> CmOrNone(width), height |-> CmOrNone(height)]

\* slide.shapes.add_textbox, add_picture and add_shape, at the place cm
Textbox(cm, text, rgb) ==
    [shape |-> "textbox", left |-> cm.left, top |-> cm.top, width |-> cm.width,
     height |-> cm.height, word_wrap |-> TRUE, text |-> text, rgb |-> rgb]

Picture(cm, img_path) ==
    [shape |-> "picture", left |-> cm.left, top |-> cm.top, width |-> cm.width,
     height |-> cm.height, img_path |-> img_path]

Rectangle(cm, rgb) ==
    [shape |-> "rectangle", left |-> cm.left, top |-> cm.top, width |-> cm.width,
     height |-> cm.height, line |-> rgb, fill |-> rgb]

add_textframe(sl, left, top, width, height, text, rgb) ==
    Append(sl, Textbox(get_cm(left, top, width, height), text, rgb))

add_image(sl, img_path, left, top, width, height) ==
    Append(sl, Picture(get_cm(left, top, width, height), img_path))

add_shape(sl, left, top, width, height, rgb) ==
    Append(sl, Rectangle(get_cm(left, top, width, height), rgb))

add_title(sl, title) ==
    add_textframe(sl, TITLE_LEFT, TITLE_TOP, TITLE_WIDTH, TITLE_HEIGHT, title, GREEN_MAIN)

add_logo(sl, path_logo) ==
    add_image(sl, path_logo, LOGO_LEFT, LOGO_TOP, None, LOGO_HEIGHT)

add_header_line(sl) ==
    add_shape(sl, HEADLINE_LEFT, HEADLINE_TOP, SLIDE_WIDTH, HEADLINE_HEIGHT, GREEN_MAIN)

\* the new slide, with title, logo and header line
add_new_slide(title, path_logo) ==
    add_header_line(add_logo(add_title(<<>>, title), path_logo))

\* prs, slide = add_new_slide(...); slide = add_textframe(...): the
\* presentation afterwards and what the call returns
SlideWithText(p, text, title, path_logo, dims) ==
    [prs |-> Append(p, add_textframe(add_new_slide(title, path_logo), dims[<<"left", 0>>],
                                     TOP, dims[<<"width", 0>>], HEIGHT, text, BLACK)),
     ret |-> [raised |-> "none", slide |-> Len(p) + 1, dims |-> dims]]

SlideFromDims(p, text, title, path_logo, d) ==
    IF d.raised # "none" THEN [prs |-> p, ret |-> d]
    ELSE SlideWithText(p, text, title, path_logo, d.dims)

add_slide_text_and_blank(p, text, title, path_logo, proportions) ==
    SlideFromDims(p, text, title, path_logo,
                  make_col_dims(LEFT, WIDTH, proportions, TOP, HEIGHT))

----------------------------------------------------------------------------
(* The calls of the splitting functions                                    *)

MaxProportions == 3
MaxSlides == 1

Proportion == {Dec(1, 10), Dec(2, 10), Dec(3, 10), Dec(5, 10), Dec(7, 10)}
Start == {FFromInt(0), FFromInt(1), LEFT}
Length == {FFromInt(3), FFromInt(24), WIDTH}

InitDims ==
    /\ pc = "start"
    /\ fn = "none"
    /\ ret = "none"
    /\ args \in [start : Start, length : Length,
                 proportions : SeqsUpTo(Proportion, MaxProportions)]
    /\ prs \in SeqsUpTo({<<>>}, MaxSlides)
    /\ doc = <<>>
    /\ slide = <<>>

CallMakeSubDims ==
    /\ pc = "start"
    /\ pc' = "done"
    /\ fn' = "_make_sub_dims"
    /\ ret' = make_sub_dims(args.start, args.length, args.proportions)
    /\ UNCHANGED <<args, prs, doc, slide>>

CallMakeColDims ==
    /\ pc = "start"
    /\ pc' = "done"
    /\ fn' = "make_col_dims"
    /\ ret' = make_col_dims(args.start, args.length, args.proportions, TOP, HEIGHT)
    /\ UNCHANGED <<args, prs, doc, slide>>

CallMakeRowDims ==
    /\ pc = "start"
    /\ pc' = "done"
    /\ fn' = "make_row_dims"
    /\ ret' = make_row_dims(args.start, args.length, args.proportions, LEFT, WIDTH)
    /\ UNCHANGED <<args, prs, doc, slide>>

CallAddSlideTextAndBlank ==
    /\ pc = "start"
    /\ pc' = "done"
    /\ fn' = "add_slide_text_and_blank"
    /\ LET r == add_slide_text_and_blank(prs, "text", "title", "logo.png", args.proportions)
       IN  prs' = r.prs /\ ret' = r.ret
    /\ UNCHANGED <<args, doc, slide>>

NextDims ==
    \/ CallMakeSubDims
    \/ CallMakeColDims
    \/ CallMakeRowDims
    \/ CallAddSlideTextAndBlank

SpecDims == InitDims /\ [][NextDims]_vars

----------------------------------------------------------------------------
(* docxtk.py: num_round.  A Python number is an int (a sign and an         *)
(* unbounded natural) or a float (a sign and a double).                    *)

PyInt(k) == [t |-> "int", neg |-> k < 0, n |-> BFromInt(IF k < 0 THEN -k ELSE k)]
PyIntB(neg, n) == [t |-> "int", neg |-> neg /\ n # <<>>, n |-> n]
PyFloat(neg, f) == [t |-> "float", neg |-> neg, f |-> f]

\* the magnitude of x as n * 2^e, exactly
Mag(x) == IF x.t = "int" THEN [n |-> x.n, e |-> 0] ELSE Exact(x.f)

IsZero(x) == Mag(x).n = <<>>

\* -1, 0, 1 as the magnitude of x is below, equal to or above the int k
MagCmp(x, k) ==
    LET a  == Mag(x)
        lo == Min(a.e, 0)
    IN  BCmp(BShl(a.n, a.e - lo), BShl(BFromInt(k), -lo))

\* x > k and x < k, for an int k > 0
py_gt(x, k) == ~x.neg /\ MagCmp(x, k) > 0
py_lt(x, k) == (x.neg /\ ~IsZero(x)) \/ MagCmp(x, k) < 0

\* abs(x) > k
py_abs_gt(x, k) == MagCmp(x, k) > 0

\* int(x): towards zero
py_int(x) ==
    IF x.t = "int" THEN x
    ELSE PyIntB(x.neg, IF x.f.e >= 0 THEN BShl(x.f.m, x.f.e) ELSE BShr(x.f.m, -x.f.e))

RECURSIVE DecDigits(_)
DecDigits(n) ==
    IF n = <<>> THEN <<>>
    ELSE LET d == BDivRem(n, 10) IN Append(DecDigits(d.q), d.r)

\* the decimal digits of a natural, most significant first
Digits(n) == IF n = <<>> THEN <<0>> ELSE DecDigits(n)

\* len(str(i)) of an int i
py_len_str(i) == Len(Digits(i.n)) + (IF i.neg THEN 1 ELSE 0)

\* round(x, ndigits): ints round half to even to a multiple of 10^-ndigits;
\* floats go to the decimal nearest the exact value (ties to even), and that
\* decimal to the double nearest to it
py_round(x, nd) ==
    IF x.t = "int"
    THEN IF nd >= 0 THEN x
         ELSE PyIntB(x.neg, BMul(BDivRound(x.n, 0, -nd), BPow10(-nd)))
    ELSE LET m == x.f.m
             e == x.f.e
         IN  IF nd >= 0
             THEN LET scaled == BMul(m, BPow10(nd))
                      k == IF e >= 0 THEN BShl(scaled, e) ELSE BDivRound(scaled, -e, 0)
                  IN  PyFloat(x.neg, FFromRatio(k, 10^nd))
             ELSE LET k == IF e >= 0 THEN BDivRound(BShl(m, e), 0, -nd)
                                     ELSE BDivRound(m, -e, -nd)
                  IN  PyFloat(x.neg, FRound(BMul(k, BPow10(-nd)), 0))

\* round(x): the nearest int, ties to even
py_round_int(x) ==
    IF x.t = "int" THEN x
    ELSE PyIntB(x.neg, IF x.f.e >= 0 THEN BShl(x.f.m, x.f.e)
                                     ELSE BDivRound(x.f.m, -x.f.e, 0))

DigitChar(d) == <<"0", "1", "2", "3", "4", "5", "6", "7", "8", "9">>[d + 1]

RECURSIVE Grouped(_, _)
Grouped(ds, i) ==
    IF i > Len(ds) THEN <<>>
    ELSE (IF i > 1 /\ (Len(ds) - i + 1) % 3 = 0 THEN <<",">> ELSE <<>>)
         \o <<DigitChar(ds[i])>> \o Grouped(ds, i + 1)

\* str(i): the string, as the sequence of its characters
fmt_ungrouped(i) ==
    (IF i.neg THEN <<"-">> ELSE <<>>) \o [k \in 1..Len(Digits(i.n)) |-> DigitChar(Digits(i.n)[k])]

\* f'{i:,}': the string, as the sequence of its characters
fmt_comma(i) == (IF i.neg THEN <<"-">> ELSE <<>>) \o Grouped(Digits(i.n), 1)

num_round(x) ==
    LET r == IF py_gt(x, 100) THEN py_round(x, 2 - py_len_str(py_int(x)))
             ELSE IF py_lt(x, 100) THEN py_round(x, 3 - py_len_str(py_int(x)))
             ELSE IF py_abs_gt(x, 10) THEN py_round(x, -1)
             ELSE x
    IN  fmt_comma(py_int(py_round_int(r)))

----------------------------------------------------------------------------
(* The calls of num_round                                                  *)

MaxInt == 1100
MaxQuarters == 1200
MaxHundredths == 10100

\* the double nearest to d * 10^p
FSci(d, p) == FRound(BMul(BFromInt(d), BPow10(p)), 0)

IntSamples == {12345, 99499, 99500, 123456789}
BigFloats == {FSci(12, 15), FSci(1, 22), FSci(95, 20), FSci(1, 23)}

Number ==
    {PyInt(k) : k \in (-MaxInt)..MaxInt}
        \cup {PyInt(k) : k \in IntSamples} \cup {PyInt(-k) : k \in IntSamples}
        \cup {PyFloat(k < 0, FRound(BFromInt(IF k < 0 THEN -k ELSE k), -2)) :
                k \in (-MaxQuarters)..MaxQuarters}
        \cup {PyFloat(k < 0, Dec(IF k < 0 THEN -k ELSE k, 100)) :
                k \in (-MaxHundredths)..MaxHundredths}
        \cup {PyFloat(neg, f) : neg \in BOOLEAN, f \in BigFloats}

InitRound ==
    /\ pc = "start"
    /\ fn = "none"
    /\ ret = "none"
    /\ args \in [x : Number]
    /\ prs = <<>>
    /\ doc = <<>>
    /\ slide = <<>>

CallNumRound ==
    /\ pc = "start"
    /\ pc' = "done"
    /\ fn' = "num_round"
    /\ ret' = [raised |-> "none", value |-> num_round(args.x)]
    /\ UNCHANGED <<args, prs, doc, slide>>

NextRound == CallNumRound

SpecRound == InitRound /\ [][NextRound]_vars

----------------------------------------------------------------------------
(* docxtk.py: add_table_from_list.  A document is the sequence of its      *)
(* paragraphs and tables; a table holds a cell for every (row, column).    *)

STYLE_FOOTER == "Footer"
STYLE_NORMAL == "Normal"
STYLE_TABLE == "Normal Table"

Paragraph(text, style) == [block |-> "paragraph", text |-> text, style |-> style]

NewTable(nrows, ncols, style) ==
    [block |-> "table", style |-> style, nrows |-> nrows, ncols |-> ncols,
     cells |-> [c \in (0..(nrows - 1)) \X (0..(ncols - 1)) |->
                  [text |-> "", alignment |-> "None"]]]

SetCell(t, i, j, text, alignment) ==
    [t EXCEPT !.cells[<<i, j>>] = [text |-> text, alignment |-> alignment]]

RECURSIVE Concat(_, _)
Concat(chars, i) == IF i > Len(chars) THEN "" ELSE chars[i] \o Concat(chars, i + 1)

\* str(k) of an int k
py_str(k) == Concat(fmt_ungrouped(PyInt(k)), 1)

\* for j in range(no_cols): cell(0, j + 1) = columns[j], centred
RECURSIVE FillColumnHeaders(_, _, _, _)
FillColumnHeaders(t, columns, j, no_cols) ==
    IF j >= no_cols THEN t
    ELSE FillColumnHeaders(SetCell(t, 0, j + 1, columns[j + 1], "CENTER"),
                           columns, j + 1, no_cols)

\* for i in range(no_rows): cell(i + 1, 0) = rows[i], left-aligned; rows[i]
\* raises IndexError past the end of rows, the table filled so far
RECURSIVE FillRowHeaders(_, _, _, _)
FillRowHeaders(t, rows, i, no_rows) ==
    IF i >= no_rows THEN [raised |-> "none", table |-> t]
    ELSE IF i >= Len(rows) THEN [raised |-> "IndexError", table |-> t]
    ELSE FillRowHeaders(SetCell(t, i + 1, 0, rows[i + 1], "LEFT"), rows, i + 1, no_rows)

\* for i in range(no_rows): for j in range(no_cols):
\*     cell(i + 1, j + 1) = str(data[i][j]), right-aligned
RECURSIVE FillData(_, _, _, _, _, _)
FillData(t, data, i, j, no_rows, no_cols) ==
    IF i >= no_rows THEN [raised |-> "none", table |-> t]
    ELSE IF j >= no_cols THEN FillData(t, data, i + 1, 0, no_rows, no_cols)
    ELSE IF j >= Len(data[i + 1]) THEN [raised |-> "IndexError", table |-> t]
    ELSE FillData(SetCell(t, i + 1, j + 1, py_str(data[i + 1][j + 1]), "RIGHT"),
                  data, i, j + 1, no_rows, no_cols)

\* the test as `if footnote is not None:` would make it
IsNotNone(opt) == ~opt.none

\* if footnote:
Truthy(opt) == ~opt.none /\ opt.v # ""

\* the count that the second assert compares with len(data)
RowCountChecked(rows, data) == Len(data)

\* the document afterwards and what the call returns (the document) or raises
docx_add_table_from_list(d, title, columns, rows, data, footnote) ==
    LET d1      == Append(d, Paragraph(title, STYLE_FOOTER))
        no_rows == Len(data)
        no_cols == Len(columns)
    IN
    IF data = <<>> THEN [doc |-> d1, ret |-> Raise("IndexError")]
    ELSE IF no_cols # Len(data[1]) THEN [doc |-> d1, ret |-> Raise("AssertionError")]
    ELSE IF RowCountChecked(rows, data) # Len(data)
    THEN [doc |-> d1, ret |-> Raise("AssertionError")]
    ELSE
    LET t0 == NewTable(no_rows + 1, no_cols + 1, STYLE_TABLE)
        t1 == FillColumnHeaders(t0, columns, 0, no_cols)
        r2 == FillRowHeaders(t1, rows, 0, no_rows)
        r3 == IF r2.raised = "none" THEN FillData(r2.table, data, 0, 0, no_rows, no_cols)
              ELSE r2
        d2 == Append(d1, r3.table)
    IN  IF r3.raised # "none" THEN [doc |-> d2, ret |-> Raise(r3.raised)]
        ELSE IF Truthy(footnote)
        THEN [doc |-> Append(d2, Paragraph(footnote.v, STYLE_NORMAL)),
              ret |-> [raised |-> "none"]]
        ELSE [doc |-> d2, ret |-> [raised |-> "none"]]

----------------------------------------------------------------------------
(* The calls of docx add_table_from_list                                   *)

MaxCols == 2
MaxRows == 2

ColumnNames == <<"A", "B", "C", "D", "E">>
RowNames == <<"r1", "r2", "r3", "r4", "r5">>

\* the header lists of 0..n names
Headers(names, n) == {SubSeq(names, 1, k) : k \in 0..n}

\* a grid of ints with rows of the lengths lens, each cell a different value
DataGrid(lens, base) == [i \in 1..Len(lens) |-> [j \in 1..lens[i] |-> base + 10 * i + j]]

\* the grids of 0..nrows rows of 0..ncols cells each, ragged ones included
DataGrids(nrows, ncols) ==
    {DataGrid(lens, base) : lens \in SeqsUpTo(0..ncols, nrows), base \in {0, -50}}

InitDocx ==
    /\ pc = "start"
    /\ fn = "none"
    /\ ret = "none"
    /\ args \in [title    : {"Table 1"},
                 columns  : Headers(ColumnNames, MaxCols),
                 rows     : Headers(RowNames, MaxRows),
                 data     : DataGrids(MaxRows, MaxCols),
                 footnote : {None, Some(""), Some("note")}]
    /\ prs = <<>>
    /\ doc \in {<<>>, <<Paragraph("intro", STYLE_NORMAL)>>}
    /\ slide = <<>>

CallDocxAddTableFromList ==
    /\ pc = "start"
    /\ pc' = "done"
    /\ fn' = "docx.add_table_from_list"
    /\ LET r == docx_add_table_from_list(doc, args.title, args.columns, args.rows,
                                         args.data, args.footnote)
       IN  doc' = r.doc /\ ret' = r.ret
    /\ UNCHANGED <<args, prs, slide>>

NextDocx == CallDocxAddTableFromList

SpecDocx == InitDocx /\ [][NextDocx]_vars

----------------------------------------------------------------------------
(* pptxtk.py: tables on a slide                                            *)

NewSlideTable(nrows, ncols, cm) ==
    [shape |-> "table", nrows |-> nrows, ncols |-> ncols,
     left |-> cm.left, top |-> cm.top, width |-> cm.width, height |-> cm.height,
     col_width |-> [j \in 0..(ncols - 1) |-> "library default"],
     cells |-> [c \in (0..(nrows - 1)) \X (0..(ncols - 1)) |->
                  [text |-> "", font_size |-> "None"]]]

SetText(t, i, j, text) == [t EXCEPT !.cells[<<i, j>>].text = text]

\* for i, proportion in enumerate(col_proportions):
\*     table.columns[i].width = Cm(width * proportion)
RECURSIVE SetColumnWidths(_, _, _, _)
SetColumnWidths(t, width, props, i) ==
    IF i >= Len(props) THEN [raised |-> "none", table |-> t]
    ELSE IF i >= t.ncols THEN [raised |-> "IndexError", table |-> t]
    ELSE SetColumnWidths([t EXCEPT !.col_width[i] = Cm(FMul(width, props[i + 1]))],
                         width, props, i + 1)

RECURSIVE PopulateCols(_, _, _)
PopulateCols(t, cols, j) ==
    IF j >= Len(cols) THEN t ELSE PopulateCols(SetText(t, 0, j + 1, cols[j + 1]), cols, j + 1)

RECURSIVE PopulateRows(_, _, _)
PopulateRows(t, rows, i) ==
    IF i >= Len(rows) THEN t ELSE PopulateRows(SetText(t, i + 1, 0, rows[i + 1]), rows, i + 1)

\* for j in range(len(cols)): for i in range(len(rows)):
\*     cell(i + 1, j + 1) = str(values[i][j])
RECURSIVE PopulateValues(_, _, _, _, _, _)
PopulateValues(t, values, j, i, ncols, nrows) ==
    IF j >= ncols THEN [raised |-> "none", table |-> t]
    ELSE IF i >= nrows THEN PopulateValues(t, values, j + 1, 0, ncols, nrows)
    ELSE IF i >= Len(values) \/ j >= Len(values[i + 1])
    THEN [raised |-> "IndexError", table |-> t]
    ELSE PopulateValues(SetText(t, i + 1, j + 1, py_str(values[i + 1][j + 1])),
                        values, j, i + 1, ncols, nrows)

populate_table(t, cols, rows, values, first_cell) ==
    PopulateValues(PopulateRows(PopulateCols(SetText(t, 0, 0, first_cell), cols, 0), rows, 0),
                   values, 0, 0, Len(cols), Len(rows))

\* every run of every cell: a cell has a run when it has text
set_table_font_size(t, pt) ==
    [t EXCEPT !.cells = [c \in DOMAIN t.cells |->
        IF t.cells[c].text = "" THEN t.cells[c]
        ELSE [t.cells[c] EXCEPT !.font_size = Pt(pt)]]]

\* the slide afterwards (the table is its last shape) and what the call
\* returns (the slide) or raises
add_table_from_lst(sl, cols, rows, values, left, top, width, height, first_cell, font_size, col_proportions) ==
    LET t0 == NewSlideTable(Len(rows) + 1, Len(cols) + 1, get_cm(left, top, width, height))
        Out(t, exc) == [slide |-> Append(sl, t), ret |-> Raise(exc)]
    IN
    IF col_proportions = None THEN Out(t0, "TypeError")
    ELSE IF FSum(col_proportions.v) # FOne THEN Out(t0, "AssertionError")
    ELSE
    LET r1 == SetColumnWidths(t0, width, col_proportions.v, 0)
        r2 == IF r1.raised = "none" THEN populate_table(r1.table, cols, rows, values, first_cell)
              ELSE r1
        t3 == IF font_size # 0 THEN set_table_font_size(r2.table, font_size) ELSE r2.table
    IN  IF r2.raised # "none" THEN Out(r2.table, r2.raised)
        ELSE [slide |-> Append(sl, t3), ret |-> [raised |-> "none"]]

\* the font size that add_table_from_df hands on
FontSizePassed(font_size) == 12

\* a DataFrame is its index, its columns and its values, one row per index
\* entry and one cell per column
pptx_add_table_from_df(sl, df, left, top, width, height, col_proportions, first_cell, font_size) ==
    add_table_from_lst(sl, df.columns, df.index, df.values, left, top, width, height,
                       first_cell, FontSizePassed(font_size), col_proportions)

----------------------------------------------------------------------------
(* The calls of the slide table functions                                  *)

MaxColProportions == 3

ColProportion == {Dec(3, 10), Dec(5, 10), Dec(7, 10)}
ColProportions == {None} \cup {Some(p) : p \in SeqsUpTo(ColProportion, MaxColProportions)}
FontSize == {0, 12, 20}

Place == [left : {LEFT}, top : {TOP}, width : {FFromInt(24)}, height : {FFromInt(10)}]

LstArgs ==
    [cols : Headers(ColumnNames, MaxCols), rows : Headers(RowNames, MaxRows),
     values : DataGrids(MaxRows, MaxCols), place : Place, first_cell : {" "},
     font_size : FontSize, col_proportions : ColProportions]

DataFrames ==
    {[index |-> SubSeq(RowNames, 1, r), columns |-> SubSeq(ColumnNames, 1, c),
      values |-> DataGrid([i \in 1..r |-> c], base)] :
        r \in 0..MaxRows, c \in 0..MaxCols, base \in {0, -50}}

DfArgs ==
    [df : DataFrames, place : Place, first_cell : {" "},
     font_size : FontSize, col_proportions : ColProportions]

InitPptx ==
    /\ pc = "start"
    /\ fn = "none"
    /\ ret = "none"
    /\ args \in LstArgs \cup DfArgs
    /\ prs = <<>>
    /\ doc = <<>>
    /\ slide \in {<<>>, add_title(<<>>, "title")}

CallAddTableFromLst ==
    /\ pc = "start"
    /\ "df" \notin DOMAIN args
    /\ pc' = "done"
    /\ fn' = "_add_table_from_lst"
    /\ LET r == add_table_from_lst(slide, args.cols, args.rows, args.values, args.place.left,
                                   args.place.top, args.place.width, args.place.height,
                                   args.first_cell, args.font_size, args.col_proportions)
       IN  slide' = r.slide /\ ret' = r.ret
    /\ UNCHANGED <<args, prs, doc>>

CallPptxAddTableFromDf ==
    /\ pc = "start"
    /\ "df" \in DOMAIN args
    /\ pc' = "done"
    /\ fn' = "pptx.add_table_from_df"
    /\ LET r == pptx_add_table_from_df(slide, args.df, args.place.left, args.place.top,
                                       args.place.width, args.place.height,
                                       args.col_proportions, args.first_cell, args.font_size)
       IN  slide' = r.slide /\ ret' = r.ret
    /\ UNCHANGED <<args, prs, doc>>

NextPptx == CallAddTableFromLst \/ CallPptxAddTableFromDf

SpecPptx == InitPptx /\ [][NextPptx]_vars

----------------------------------------------------------------------------
(* docxtk.py: fmt_written_list_with_values_in_bracket                      *)

\* zip(names, values), each pair as f'{name} ({val})'
Combined(names, values) ==
    [i \in 1..Min(Len(names), Len(values)) |-> names[i] \o " (" \o values[i] \o ")"]

\* sep.join(items)
RECURSIVE Join(_, _)
Join(sep, items) ==
    IF items = <<>> THEN ""
    ELSE IF Len(items) = 1 THEN items[1]
    ELSE items[1] \o sep \o Join(sep, Tail(items))

\* items[:n]
Slice(items, n) ==
    SubSeq(items, 1, IF n >= 0 THEN Min(n, Len(items)) ELSE Max(0, Len(items) + n))

\* what follows the joined items
Ending == "."

fmt_written_list_with_values_in_bracket(names, values, length) ==
    Join(", ", Slice(Combined(names, values), length)) \o Ending

MaxNames == 4
MaxLength == 4

PlaceNames == <<"Derby", "Matlock", "Winster", "Bakewell", "Buxton", "Ashbourne">>
Percentages == <<"40%", "30%", "20%", "6%", "3%", "1%">>

InitFmt ==
    /\ pc = "start"
    /\ fn = "none"
    /\ ret = "none"
    /\ args \in [names : Headers(PlaceNames, MaxNames),
                 values : Headers(Percentages, MaxNames), length : (-1)..MaxLength]
    /\ prs = <<>>
    /\ doc = <<>>
    /\ slide = <<>>

CallFmtWrittenList ==
    /\ pc = "start"
    /\ pc' = "done"
    /\ fn' = "fmt_written_list_with_values_in_bracket"
    /\ ret' = [raised |-> "none",
               value  |-> fmt_written_list_with_values_in_bracket(args.names, args.values,
                                                                  args.length)]
    /\ UNCHANGED <<args, prs, doc, slide>>

NextFmt == CallFmtWrittenList

SpecFmt == InitFmt /\ [][NextFmt]_vars

----------------------------------------------------------------------------
(* Claims about the splitting functions                                    *)

DimsFns == {"_make_sub_dims", "make_col_dims", "make_row_dims"}

Returned == pc = "done" /\ ret.raised = "none"

\* the segments a finished call returned, whichever function it was
SegStarts ==
    CASE fn = "_make_sub_dims" -> ret.starts
      [] fn = "make_col_dims"  -> [i \in 1..Len(args.proportions) |-> ret.dims[<<"left", i - 1>>]]
      [] fn = "make_row_dims"  -> [i \in 1..Len(args.proportions) |-> ret.dims[<<"top", i - 1>>]]

SegLengths ==
    CASE fn = "_make_sub_dims" -> ret.lengths
      [] fn = "make_col_dims"  -> [i \in 1..Len(args.proportions) |-> ret.dims[<<"width", i - 1>>]]
      [] fn = "make_row_dims"  -> [i \in 1..Len(args.proportions) |-> ret.dims[<<"height", i - 1>>]]

\* equality of two exact values
ExactEqAt(x, y, lo) == Aligned(x.n, x.e, lo) = Aligned(y.n, y.e, lo)

ExactEq(x, y) == ExactEqAt(x, y, Min(x.e, y.e))

RECURSIVE ExactSumFrom(_, _, _)
ExactSumFrom(s, i, acc) ==
    IF i > Len(s) THEN acc ELSE ExactSumFrom(s, i + 1, ExactAdd(acc, Exact(s[i])))

\* the sum of doubles without any rounding
ExactSum(s) == ExactSumFrom(s, 1, Exact(FZero))

\* C1: for proportions that sum to 1.0 the call returns one segment per
\* proportion; the first starts at start, segment i has length
\* proportions[i] * length, each later segment starts where the previous one
\* ends, the starts are in non-decreasing order and the lengths sum to the
\* total length.  Every equation is read in the way most favourable to the
\* code: it holds if it holds of the doubles as Python would compute the
\* right-hand side, or of the exact values.
C1_SegmentsTile ==
    (Returned /\ fn \in DimsFns) =>
        LET n == Len(args.proportions)
            s == SegStarts
            l == SegLengths
        IN  /\ Len(s) = n /\ Len(l) = n
            /\ s[1] = args.start
            /\ \A i \in 1..n : l[i] = FMul(args.proportions[i], args.length)
            /\ \A i \in 1..(n - 1) : s[i + 1] = FAdd(s[i], l[i])
            /\ \A i \in 1..(n - 1) : FCmp(s[i], s[i + 1]) <= 0
            /\ \/ FSum(l) = args.length
               \/ ExactEq(ExactSum(l), Exact(args.length))

\* C1, the case that fails: start 0, length 3, proportions (0.3, 0.7) pass
\* the sum check and the lengths returned add up to less than 3.
C1_Witness ==
    /\ Returned
    /\ fn = "_make_sub_dims"
    /\ args = [start |-> FFromInt(0), length |-> FFromInt(3),
               proportions |-> <<Dec(3, 10), Dec(7, 10)>>]
    /\ FCmp(FSum(ret.lengths), args.length) < 0
    /\ ~ExactEq(ExactSum(ret.lengths), Exact(args.length))

\* C3: whenever the proportions do not sum (as Python sums them) to exactly
\* 1.0, _make_sub_dims, make_col_dims, make_row_dims and
\* add_slide_text_and_blank raise ValueError and return nothing.
C3_BadSumRaises ==
    (pc = "done" /\ fn \in DimsFns \cup {"add_slide_text_and_blank"}
                 /\ FSum(args.proportions) # FOne)
        => ret = Raise("ValueError")

C3_Witness ==
    /\ pc = "done"
    /\ fn = "add_slide_text_and_blank"
    /\ Len(args.proportions) = 2
    /\ FCmp(FSum(args.proportions), FOne) > 0
    /\ ret = Raise("ValueError")

----------------------------------------------------------------------------
(* Claims about num_round                                                  *)

DigitVal(c) == CHOOSE d \in 0..9 : DigitChar(d) = c

RECURSIVE ParseDigits(_, _, _)
ParseDigits(str, i, acc) ==
    IF i > Len(str) THEN acc
    ELSE IF str[i] \in {",", "-"} THEN ParseDigits(str, i + 1, acc)
    ELSE ParseDigits(str, i + 1, BAdd(BMulSmall(acc, 10), BFromInt(DigitVal(str[i]))))

\* the int a comma-grouped string denotes: int(s.replace(',', ''))
ParseInt(str) == PyIntB(str # <<>> /\ str[1] = "-", ParseDigits(str, 1, <<>>))

RoundDone == pc = "done" /\ fn = "num_round"

\* C4: num_round is idempotent: applied to the number its output denotes,
\* it returns the same string.
C4_Idempotent ==
    RoundDone => num_round(ParseInt(ret.value)) = ret.value

\* C4, the case that fails: num_round(1e23) is the string of the int nearest
\* the double, which num_round takes to 100,000,000,000,000,000,000,000.
C4_Witness ==
    /\ RoundDone
    /\ args.x = PyFloat(FALSE, FSci(1, 23))
    /\ Concat(ret.value, 1) = "99,999,999,999,999,991,611,392"
    /\ Concat(num_round(ParseInt(ret.value)), 1) = "100,000,000,000,000,000,000,000"

\* |y - x| < 10^k, for an int y and a number x
Within(y, x, k) ==
    LET a   == Mag(x)
        sh  == IF a.e < 0 THEN -a.e ELSE 0
        xs  == BShl(a.n, a.e + sh)
        ys  == BShl(y.n, sh)
        tol == BShl(BPow10(k), sh)
    IN  /\ IsZero(y) \/ y.neg = x.neg
        /\ IF BCmp(ys, xs) >= 0 THEN BCmp(BSub(ys, xs), tol) < 0
                                ELSE BCmp(BSub(xs, ys), tol) < 0

\* C5: the result is the comma-grouped string of an integer y that x was
\* rounded to (y is less than one unit of its second digit away from x), and
\* every digit of y after the second most significant one is 0; 12345 gives
\* "12,000", 987 gives "990" and 7 gives "7".
C5_TwoSignificantDigits ==
    RoundDone =>
        LET y  == ParseInt(ret.value)
            ds == Digits(y.n)
        IN  /\ ret.value = fmt_comma(y)
            /\ \A i \in 3..Len(ds) : ds[i] = 0
            /\ Within(y, args.x, Max(0, Len(ds) - 2))
            /\ args.x = PyInt(12345) => ret.value = <<"1", "2", ",", "0", "0", "0">>
            /\ args.x = PyInt(987) => ret.value = <<"9", "9", "0">>
            /\ args.x = PyInt(7) => ret.value = <<"7">>

\* C5, the case that fails: num_round(9.5e21) has non-zero digits after the
\* second.
C5_Witness ==
    /\ RoundDone
    /\ args.x = PyFloat(FALSE, FSci(95, 20))
    /\ Concat(ret.value, 1) = "9,500,000,000,000,001,048,576"

----------------------------------------------------------------------------
(* Claims about docx add_table_from_list                                   *)

DocxDone == pc = "done" /\ fn = "docx.add_table_from_list"

\* C2: with a non-empty data grid the call raises whenever len(columns)
\* differs from len(data[0]) and whenever len(rows) differs from len(data),
\* more row headers than data rows included.
C2_MismatchRaises ==
    (DocxDone /\ args.data # <<>>
              /\ (Len(args.columns) # Len(args.data[1]) \/ Len(args.rows) # Len(args.data)))
        => ret.raised # "none"

\* C2, the case that fails: one column, one data row and two row headers
\* raise nothing.
C2_Witness ==
    /\ DocxDone
    /\ args.columns = <<"A">>
    /\ args.rows = <<"r1", "r2">>
    /\ args.data = <<<<11>>>>
    /\ ret.raised = "none"

\* what C7 says the call appends: the title paragraph, the table, and the
\* footnote paragraph if footnote is a non-empty string
IsTitle(b) == b.block = "paragraph" /\ b.text = args.title

IsTable(b) ==
    /\ b.block = "table"
    /\ b.nrows = Len(args.data) + 1
    /\ b.ncols = Len(args.columns) + 1
    /\ DOMAIN b.cells = (0..Len(args.data)) \X (0..Len(args.columns))
    /\ b.cells[<<0, 0>>].text = ""
    /\ \A j \in 0..(Len(args.columns) - 1) : b.cells[<<0, j + 1>>].text = args.columns[j + 1]
    /\ \A i \in 0..(Len(args.data) - 1) : b.cells[<<i + 1, 0>>].text = args.rows[i + 1]
    /\ \A i \in 0..(Len(args.data) - 1) : \A j \in 0..(Len(args.columns) - 1) :
           b.cells[<<i + 1, j + 1>>].text = py_str(args.data[i + 1][j + 1])

IsFootnote(b) == b.block = "paragraph" /\ b.text = args.footnote.v

C10_FailedCheckLeavesDoc ==
    [][(pc' = "done" /\ fn' = "docx.add_table_from_list" /\ ret'.raised = "AssertionError")
        => doc' = doc]_vars

\* C10, the case that fails: two column headers and a data row of one cell
\* fail the first assert with the title paragraph already in the document.
C10_Witness ==
    /\ DocxDone
    /\ args.columns = <<"A", "B">>
    /\ args.data = <<<<11>>>>
    /\ ret = Raise("AssertionError")
    /\ doc # <<>>
    /\ doc[Len(doc)] = Paragraph(args.title, STYLE_FOOTER)

----------------------------------------------------------------------------
(* Claims about the slide table functions                                  *)

TableFns == {"_add_table_from_lst", "pptx.add_table_from_df"}

\* the lists the call puts in the table
ArgCols == IF "df" \in DOMAIN args THEN args.df.columns ELSE args.cols
ArgRows == IF "df" \in DOMAIN args THEN args.df.index ELSE args.rows
ArgValues == IF "df" \in DOMAIN args THEN args.df.values ELSE args.values

\* values holds a cell for every row and column header
WellFormed ==
    /\ Len(ArgValues) = Len(ArgRows)
    /\ \A i \in 1..Len(ArgValues) : Len(ArgValues[i]) = Len(ArgCols)

AddedTable == slide[Len(slide)]

\* C6: with col_proportions left at None the call raises nothing, the table
\* of len(rows)+1 rows and len(cols)+1 columns is on the slide, populated,
\* with the column widths the library gave it.
C6_NoneIsAccepted ==
    (pc = "done" /\ fn \in TableFns /\ args.col_proportions = None /\ WellFormed) =>
        /\ ret.raised = "none"
        /\ AddedTable.shape = "table"
        /\ AddedTable.nrows = Len(ArgRows) + 1
        /\ AddedTable.ncols = Len(ArgCols) + 1
        /\ \A j \in 0..Len(ArgCols) : AddedTable.col_width[j] = "library default"
        /\ \A i \in 1..Len(ArgRows) : \A j \in 1..Len(ArgCols) :
               AddedTable.cells[<<i, j>>].text = py_str(ArgValues[i][j])

\* C6, the case that fails: _add_table_from_lst with col_proportions None
\* raises TypeError, the empty table already on the slide.
C6_Witness ==
    /\ pc = "done"
    /\ fn = "_add_table_from_lst"
    /\ args.col_proportions = None
    /\ args.cols = <<"A">>
    /\ args.rows = <<"r1">>
    /\ args.values = <<<<11>>>>
    /\ ret = Raise("TypeError")
    /\ AddedTable.shape = "table"
    /\ \A c \in DOMAIN AddedTable.cells : AddedTable.cells[c].text = ""

\* C8: after add_table_from_df every run of every cell of the added table
\* has the point size the caller passed as font_size.
C8_FontSizeApplied ==
    (pc = "done" /\ fn = "pptx.add_table_from_df" /\ ret.raised = "none") =>
        \A c \in DOMAIN AddedTable.cells :
            AddedTable.cells[c].text # "" => AddedTable.cells[c].font_size = Pt(args.font_size)

\* C8, the case that fails: a caller passing 20 gets 12-point text.
C8_Witness ==
    /\ pc = "done"
    /\ fn = "pptx.add_table_from_df"
    /\ ret.raised = "none"
    /\ args.font_size = 20
    /\ args.df.columns = <<"A">>
    /\ args.df.index = <<"r1">>
    /\ \A c \in DOMAIN AddedTable.cells : AddedTable.cells[c].font_size = Pt(12)

----------------------------------------------------------------------------
(* Claims about fmt_written_list_with_values_in_bracket                    *)

\* 'a, b and c': ', ' between the items, ' and ' before the last
WrittenList(items) ==
    IF Len(items) <= 1 THEN Join("", items)
    ELSE Join(", ", SubSeq(items, 1, Len(items) - 1)) \o " and " \o items[Len(items)]

\* C9: the first length (name, value) pairs become 'name (value)' items,
\* separated by ', ', the last two joined by ' and ', nothing after the last;
\* Derby, Matlock, Winster with 40%, 30%, 20% give
\* 'Derby (40%), Matlock (30%) and Winster (20%)'.
C9_WrittenList ==
    (pc = "done" /\ fn = "fmt_written_list_with_values_in_bracket" /\ args.length >= 0) =>
        /\ ret.value = WrittenList(Slice(Combined(args.names, args.values), args.length))
        /\ (Len(args.names) = 3 /\ Len(args.values) = 3 /\ args.length = 3)
               => ret.value = "Derby (40%), Matlock (30%) and Winster (20%)"

\* C9, the case that fails: the three pairs are all joined by ', ' and a
\* full stop follows.
C9_Witness ==
    /\ pc = "done"
    /\ fn = "fmt_written_list_with_values_in_bracket"
    /\ args = [names |-> <<"Derby", "Matlock", "Winster">>,
               values |-> <<"40%", "30%", "20%">>, length |-> 3]
    /\ ret.value = "Derby (40%), Matlock (30%), Winster (20%)."

====
